---- MODULE Spec2Model ----
(***************************************************************************)
(* Model of the updater bootstrap (src/updater/bootstrap.js): the version  *)
(* check, the rollout gate with its cached roll, the streamed download of  *)
(* the updater and the hand-off to the spawned updater process.            *)
(***************************************************************************)
EXTENDS Integers, Sequences, FiniteSets, TLC

(***************************************************************************)
(* Bounds of the model.                                                    *)
(***************************************************************************)
\* number of sequential launches of the host application that are modelled
MaxRuns == 2
\* longest waitPids list handed to the bootstrap
MaxPids == 2
\* number of body chunks the binary endpoint may deliver
MaxChunks == 2

(***************************************************************************)
(* Semantic versions (the semver package used at bootstrap.js:214-219).    *)
(* A version is major.minor.patch plus a sequence of pre-release           *)
(* identifiers; an identifier is numeric or alphanumeric.  Alphanumeric    *)
(* identifiers are represented by their rank in lexical order.             *)
(***************************************************************************)
Num(n) == [num |-> TRUE, v |-> n]
Alpha(r) == [num |-> FALSE, v |-> r]

V(text, ma, mi, pa, pre) ==
    [kind |-> "semver", text |-> text,
     major |-> ma, minor |-> mi, patch |-> pa, pre |-> pre]

\* a version string semver cannot parse ("new SemVer" throws a TypeError)
InvalidVersion == [kind |-> "invalid", text |-> "not-a-version"]
\* body.version missing, null or empty: falsy at bootstrap.js:209
NoVersion == [kind |-> "none", text |-> ""]

V0_9_9 == V("0.9.9", 0, 9, 9, <<>>)
V1_0_0 == V("1.0.0", 1, 0, 0, <<>>)
V1_2_0_alpha == V("1.2.0-alpha", 1, 2, 0, <<Alpha(0)>>)
V1_2_0_alpha_1 == V("1.2.0-alpha.1", 1, 2, 0, <<Alpha(0), Num(1)>>)
V1_2_0 == V("1.2.0", 1, 2, 0, <<>>)

\* the versions info.version and the version endpoint take
CurrentVersions == {V1_0_0, V1_2_0_alpha_1}
RemoteVersions == {V0_9_9, V1_0_0, V1_2_0_alpha, V1_2_0_alpha_1, V1_2_0}

IsValidVersion(v) == v.kind = "semver"

VersionTexts == {v.text : v \in RemoteVersions}

Cmp(a, b) == IF a < b THEN -1 ELSE IF a > b THEN 1 ELSE 0

\* semver compareIdentifiers: numeric identifiers order numerically and
\* below alphanumeric ones, alphanumeric ones order lexically
compareIdentifiers(a, b) ==
    IF a.num /\ b.num THEN Cmp(a.v, b.v)
    ELSE IF a.num /\ ~b.num THEN -1
    ELSE IF b.num /\ ~a.num THEN 1
    ELSE Cmp(a.v, b.v)

compareMain(a, b) ==
    IF Cmp(a.major, b.major) # 0 THEN Cmp(a.major, b.major)
    ELSE IF Cmp(a.minor, b.minor) # 0 THEN Cmp(a.minor, b.minor)
    ELSE Cmp(a.patch, b.patch)

RECURSIVE comparePreFrom(_, _, _)
comparePreFrom(p, q, i) ==
    IF i > Len(p) /\ i > Len(q) THEN 0
    ELSE IF i > Len(q) THEN 1
    ELSE IF i > Len(p) THEN -1
    ELSE IF p[i] = q[i] THEN comparePreFrom(p, q, i + 1)
    ELSE compareIdentifiers(p[i], q[i])

\* semver comparePre: a release is above each of its pre-releases
comparePre(a, b) ==
    IF Len(a.pre) > 0 /\ Len(b.pre) = 0 THEN -1
    ELSE IF Len(a.pre) = 0 /\ Len(b.pre) > 0 THEN 1
    ELSE IF Len(a.pre) = 0 /\ Len(b.pre) = 0 THEN 0
    ELSE comparePreFrom(a.pre, b.pre, 1)

compare(a, b) ==
    IF compareMain(a, b) # 0 THEN compareMain(a, b) ELSE comparePre(a, b)

semverEq(a, b) == compare(a, b) = 0

semverGt(a, b) == compare(a, b) = 1

(***************************************************************************)
(* Text of the roll cache file.  A text is a sequence of one-character     *)
(* strings; parseInt and the template literal `${roll}` are modelled by    *)
(* what they do to such a text.                                            *)
(***************************************************************************)
Digits == <<"0", "1", "2", "3", "4", "5", "6", "7", "8", "9">>
HexLetters == <<"a", "b", "c", "d", "e", "f">>

\* a JavaScript number: NaN, or an integer
NaN == [nan |-> TRUE, v |-> 0]
JsInt(n) == [nan |-> FALSE, v |-> n]

\* JavaScript truthiness of a number: NaN, 0 and -0 are falsy
Falsy(x) == x.nan \/ x.v = 0

DigitVal(c) ==
    IF \E i \in 1..10 : Digits[i] = c
    THEN (CHOOSE i \in 1..10 : Digits[i] = c) - 1
    ELSE IF \E i \in 1..6 : HexLetters[i] = c
    THEN (CHOOSE i \in 1..6 : HexLetters[i] = c) + 9
    ELSE 99

IsDigitIn(c, radix) == DigitVal(c) < radix

RECURSIVE SkipSpace(_)
SkipSpace(s) ==
    IF Len(s) > 0 /\ Head(s) \in {" ", "\n"} THEN SkipSpace(Tail(s)) ELSE s

\* value of the longest prefix of s made of digits of the radix
RECURSIVE DigitsPrefix(_, _, _)
DigitsPrefix(s, radix, acc) ==
    IF Len(s) > 0 /\ IsDigitIn(Head(s), radix)
    THEN DigitsPrefix(Tail(s), radix, acc * radix + DigitVal(Head(s)))
    ELSE acc

\* JavaScript parseInt(text) with no radix argument
parseInt(text) ==
    LET s1 == SkipSpace(text)
        neg == Len(s1) > 0 /\ Head(s1) = "-"
        s2 == IF Len(s1) > 0 /\ Head(s1) \in {"-", "+"} THEN Tail(s1) ELSE s1
        hex == Len(s2) >= 2 /\ s2[1] = "0" /\ s2[2] = "x"
        s3 == IF hex THEN Tail(Tail(s2)) ELSE s2
        radix == IF hex THEN 16 ELSE 10
    IN  IF Len(s3) = 0 \/ ~IsDigitIn(Head(s3), radix) THEN NaN
        ELSE IF neg THEN JsInt(0 - DigitsPrefix(s3, radix, 0))
        ELSE JsInt(DigitsPrefix(s3, radix, 0))

RECURSIVE NatToText(_)
NatToText(n) ==
    IF n < 10 THEN <<Digits[n + 1]>>
    ELSE Append(NatToText(n \div 10), Digits[(n % 10) + 1])

\* the template literal `${roll}` of bootstrap.js:114
ToText(n) == IF n < 0 THEN <<"-">> \o NatToText(0 - n) ELSE NatToText(n)

(***************************************************************************)
(* Paths and the file system.  A path is the sequence of its components,   *)
(* as dirPath.split(path.sep) gives them; the first component is the root. *)
(***************************************************************************)
Root == <<"C:">>
cacheDir == <<"C:", "cache">>
tempDir == <<"C:", "tmp", "slobs">>

\* path.join(info.cacheDir, 'rolls', version) and its path.dirname
rollsDir == Append(cacheDir, "rolls")

Prefix(path, n) == SubSeq(path, 1, n)
Parent(path) == Prefix(path, Len(path) - 1)

AbsentFile == [exists |-> FALSE, text |-> <<>>]
FileWith(text) == [exists |-> TRUE, text |-> text]

\* contents the roll cache file may hold before the first run
RollTexts ==
    { <<>>, <<"0">>, <<"a", "b", "c">>, <<"4", "5">>, <<"5", "0">>,
      <<"5", "1">>, <<"1", "5", "0">>, <<"-", "5">>, <<" ", "7", "\n">>,
      <<"0", "x", "1", "f">>, <<"1", "2", "a", "b">> }

\* the values body.chance takes in a 200 answer of the chance endpoint
Chances == {0, 30, 50, 100}

\* Math.trunc(Math.random() * 100): Math.random() is in [0, 1)
RandomTruncs == 0..99
\* the draws followed through the download: the ends of the range and the
\* values around the chances
SampleTruncs == {0, 49, 50, 99}

\* the waitPids lists: the first n of these process identifiers
PidPool == <<"222", "111", "444", "333">>
WaitPidSets == { SubSeq(PidPool, 1, n) : n \in 0..MaxPids }

VARIABLES
    info,            \* the UpdateRequest: version (waitPids: see Launch)
    run,             \* number of the current launch of the application
    dirs,            \* directories that exist
    rollFiles,       \* {cacheDir}/rolls/{version}, for each version
    updFile,         \* {tempDir}/latest-updater.exe
    pc,              \* where entry() is suspended
    latestVersion,   \* entry: latestVersion
    chance,          \* checkChance: chance
    roll,            \* checkChance: roll
    edI,             \* ensureDir(rolls): length of the prefix being created
    statusWindow,    \* "null", "open" or "closed" (a closed window's handle)
    bg,              \* the un-awaited ensureDir(info.tempDir)
    outStream,       \* fs.createWriteStream(updaterPath)
    req,             \* request(reqInfo) of the binary endpoint
    dlPromise,       \* the promise fetchUpdater returns
    progressLog,     \* what progress() was called with, and the window then
    done,            \* the exported promise has settled
    result,          \* the boolean it settled to
    unhandled,       \* errors nothing handled
    spawnCalls,      \* calls of cp.spawn
    spawnArgs,       \* the argument list of the last call
    child,           \* the updater process
    hist,            \* what this launch did (requests, gate, writes)
    stored           \* the first roll a gate call wrote, with its chance

vars ==
    << info, run, dirs, rollFiles, updFile, pc, latestVersion, chance, roll,
       edI, statusWindow, bg, outStream, req, dlPromise, progressLog, done,
       result, unhandled, spawnCalls, spawnArgs, child, hist, stored >>

disk == <<dirs, rollFiles, updFile>>
download == <<bg, outStream, req, dlPromise, progressLog>>

NoReq ==
    [state |-> "none", status |-> 0, total |-> 0, chunks |-> 0, accum |-> 0,
     progress |-> <<>>]
NoStream == [state |-> "none", buffered |-> 0, ended |-> FALSE, error |-> "none"]
NoBg == [state |-> "none", i |-> 0]
NoFile == [exists |-> FALSE, bytes |-> 0, status |-> 0]
NoStored == [roll |-> 0, chance |-> 0, run |-> 0, version |-> ""]

NoHist ==
    [ chanceRequested |-> FALSE, binaryRequested |-> FALSE,
      gate |-> "none", chanceStatus |-> 0,
      prior |-> AbsentFile, fresh |-> FALSE, written |-> <<>>,
      launchReached |-> FALSE, spawnFault |-> FALSE, waitPids |-> <<>> ]

\* the state of a freshly started process
ProcessStart ==
    /\ pc = "getVersion"
    /\ latestVersion = NoVersion
    /\ chance = 0
    /\ roll = 0
    /\ edI = 0
    /\ statusWindow = "null"
    /\ bg = NoBg
    /\ outStream = NoStream
    /\ req = NoReq
    /\ dlPromise = "none"
    /\ progressLog = <<>>
    /\ done = FALSE
    /\ result = FALSE
    /\ unhandled = {}
    /\ spawnCalls = 0
    /\ spawnArgs = <<>>
    /\ child = "none"
    /\ hist = NoHist

\* the directories of the cache and of the temp directory that exist at
\* the start
CacheDirSets == { {}, {cacheDir}, {cacheDir, rollsDir} }
TempDirSets == { {}, {Parent(tempDir)}, {Parent(tempDir), tempDir} }

\* a launch followed to its end: no cache yet, or a cached roll of 45
Init ==
    /\ info \in [version : CurrentVersions]
    /\ run = 1
    /\ \E c \in {{}, {cacheDir, rollsDir}}, t \in TempDirSets :
         /\ dirs = {Root} \cup c \cup t
         /\ rollFiles \in { [name \in VersionTexts |-> f] :
                f \in IF c = {} THEN {AbsentFile} ELSE {FileWith(<<"4", "5">>)} }
    /\ updFile = NoFile
    /\ stored = NoStored
    /\ ProcessStart

\* launches followed to the decision of the gate: every cache content
InitGate ==
    /\ info \in [version : {V1_2_0_alpha_1}]
    /\ run = 1
    /\ \E c \in CacheDirSets :
         /\ dirs = {Root} \cup c \cup {Parent(tempDir), tempDir}
         /\ rollFiles \in { [name \in VersionTexts |-> f] :
                f \in IF rollsDir \in c
                      THEN {AbsentFile} \cup {FileWith(t) : t \in RollTexts}
                      ELSE {AbsentFile} }
    /\ updFile = NoFile
    /\ stored = NoStored
    /\ ProcessStart

(***************************************************************************)
(* module.exports: entry(info).catch(...)   (bootstrap.js:290-296)         *)
(***************************************************************************)
\* statusWindow.close() on a window the user has already destroyed throws
\* ("Object has been destroyed")
CloseThrows(window) == window = "destroyed"

\* if (statusWindow) statusWindow.close(): the handle itself is kept
AfterClose(window) == IF window = "null" THEN "null" ELSE "closed"

\* a rejection handler that forgets the status window
CatchHandlerLeavesOpen ==
    /\ UNCHANGED statusWindow
    /\ done' = TRUE
    /\ result' = FALSE
    /\ pc' = "done"

\* the rejection handler: close the status window, resolve to false; when
\* the close throws, the promise returned to the caller rejects
CatchHandler ==
    IF CloseThrows(statusWindow) THEN
        /\ pc' = "rejected"
        /\ UNCHANGED <<statusWindow, done, result>>
    ELSE
        /\ statusWindow' = AfterClose(statusWindow)
        /\ done' = TRUE
        /\ result' = FALSE
        /\ pc' = "done"

\* entry returns false before the status window is opened
ReturnFalse ==
    /\ done' = TRUE
    /\ result' = FALSE
    /\ pc' = "done"
    /\ UNCHANGED statusWindow

(***************************************************************************)
(* getVersion and the version comparison of entry (bootstrap.js:174-222)   *)
(***************************************************************************)
\* a version check without the test of bootstrap.js:219: every version
\* that differs from the current one proceeds
VersionCheckAnyDifferent(current, latest) ==
    IF latest.kind = "none" THEN "failed"
    ELSE IF ~IsValidVersion(latest) \/ ~IsValidVersion(current) THEN "throw"
    ELSE IF semverEq(current, latest) THEN "equal"
    ELSE "proceed"

\* what lines 209-222 do with the fetched version
VersionCheck(current, latest) ==
    IF latest.kind = "none" THEN "failed"
    ELSE IF ~IsValidVersion(latest) \/ ~IsValidVersion(current) THEN "throw"
    ELSE IF semverEq(current, latest) THEN "equal"
    ELSE IF semverGt(current, latest) THEN "older"
    ELSE "proceed"

\* the answers of the version endpoint: a transport error, or a status
\* with the version field of the body
VersionAnswers ==
    { [error |-> TRUE, status |-> 0, version |-> NoVersion],
      [error |-> FALSE, status |-> 404, version |-> NoVersion] }
    \cup { [error |-> FALSE, status |-> 200, version |-> v] :
             v \in RemoteVersions \cup {NoVersion, InvalidVersion} }

\* getVersion: null unless the status is 200
getVersion(answer) ==
    IF answer.status # 200 THEN NoVersion ELSE answer.version

\* the version request completes; entry runs up to the chance request
VersionResponse ==
    /\ pc = "getVersion"
    /\ \E answer \in VersionAnswers :
         LET latest == getVersion(answer)
             check == VersionCheck(info.version, latest)
         IN  IF answer.error THEN
                 /\ CatchHandler
                 /\ UNCHANGED <<latestVersion, hist>>
             ELSE
                 /\ latestVersion' = latest
                 /\ CASE check = "throw" ->
                           CatchHandler /\ UNCHANGED hist
                      [] check = "proceed" ->
                           /\ pc' = "chance"
                           /\ hist' = [hist EXCEPT !.chanceRequested = TRUE]
                           /\ UNCHANGED <<done, result, statusWindow>>
                      [] OTHER ->
                           ReturnFalse /\ UNCHANGED hist
    /\ UNCHANGED << info, run, disk, chance, roll, edI, download, unhandled,
                    spawnCalls, spawnArgs, child, stored >>

(***************************************************************************)
(* The start of the download: entry from the status window to the await    *)
(* of fetchUpdater (bootstrap.js:229-258, 132-171)                         *)
(***************************************************************************)
\* new BrowserWindow(...) and loadURL: the window opens, or the constructor
\* or a later call throws and the catch block leaves statusWindow null
WindowOpenings == {"ok", "ctorThrows", "loadThrows"}

ProceedToDownload ==
    /\ \E opening \in WindowOpenings :
         statusWindow' = IF opening = "ok" THEN "open" ELSE "null"
    /\ bg' = IF Len(tempDir) > 1
             THEN [state |-> "running", i |-> 2]
             ELSE [state |-> "done", i |-> 0]
    /\ outStream' = [NoStream EXCEPT !.state = "opening"]
    /\ req' = [NoReq EXCEPT !.state = "sent"]
    /\ dlPromise' = "pending"
    /\ pc' = "download"
    /\ UNCHANGED <<done, result, progressLog>>

GateFail == CatchHandler /\ UNCHANGED download

GateSkip == ReturnFalse /\ UNCHANGED download

GateWaits == UNCHANGED <<statusWindow, done, result, download>>

(***************************************************************************)
(* checkChance and getPreviousRoll (bootstrap.js:57-124)                   *)
(***************************************************************************)
ChanceAnswers ==
    { [error |-> TRUE, status |-> 0, json |-> FALSE, chance |-> 0],
      [error |-> FALSE, status |-> 404, json |-> FALSE, chance |-> 0],
      [error |-> FALSE, status |-> 200, json |-> FALSE, chance |-> 0] }
    \cup { [error |-> FALSE, status |-> 200, json |-> TRUE, chance |-> c] :
             c \in Chances }

\* path.join(info.cacheDir, 'rolls', version): the file of the version
rollCache(version) == version.text

\* a getPreviousRoll that never finds a cached roll
getPreviousRollNoCache(file) == 0

\* getPreviousRoll: 0 when the file cannot be read or holds no number
getPreviousRoll(file) ==
    IF ~file.exists THEN 0
    ELSE IF Falsy(parseInt(file.text)) THEN 0
    ELSE parseInt(file.text).v

\* a roll without the "+ 1" of bootstrap.js:109
D100NoOffset(trunc) == trunc

\* the D100 roll of bootstrap.js:109
D100(trunc) == trunc + 1

\* a comparison that excludes the tie
EligibleStrict(r, c) == r < c

\* bootstrap.js:119-123
Eligible(r, c) == r <= c

\* an entry that tests the promise of checkChance instead of its value:
\* the decision is taken and then ignored
GateDecisionIgnored(h, r, fresh, written) ==
    /\ hist' = [h EXCEPT !.gate = IF Eligible(r, chance) THEN "true" ELSE "false",
                            !.fresh = fresh,
                            !.written = written,
                            !.binaryRequested = TRUE]
    /\ ProceedToDownload

\* the decision of checkChance on a roll, and entry's reaction to it
GateDecision(h, r, fresh, written) ==
    /\ hist' = [h EXCEPT !.gate = IF Eligible(r, chance) THEN "true" ELSE "false",
                            !.fresh = fresh,
                            !.written = written,
                            !.binaryRequested = Eligible(r, chance)]
    /\ IF Eligible(r, chance) THEN ProceedToDownload ELSE GateSkip

\* the chance request completes
ChanceResponse ==
    /\ pc = "chance"
    /\ \E answer \in ChanceAnswers :
         IF answer.error THEN
             /\ GateFail
             /\ UNCHANGED <<chance, hist>>
         ELSE IF answer.status # 200 THEN
             /\ ProceedToDownload
             /\ hist' = [hist EXCEPT !.gate = "true",
                                     !.chanceStatus = answer.status,
                                     !.binaryRequested = TRUE]
             /\ UNCHANGED chance
         ELSE IF ~answer.json THEN
             /\ GateFail
             /\ hist' = [hist EXCEPT !.chanceStatus = answer.status]
             /\ UNCHANGED chance
         ELSE
             /\ chance' = answer.chance
             /\ pc' = "readRoll"
             /\ hist' = [hist EXCEPT !.chanceStatus = answer.status]
             /\ GateWaits
    /\ UNCHANGED << info, run, disk, latestVersion, roll, edI, unhandled,
                    spawnCalls, spawnArgs, child, stored >>

\* fs.readFile of the roll cache completes; truncs are the values of
\* Math.trunc(Math.random() * 100) that are followed
ReadRoll(truncs) ==
    /\ pc = "readRoll"
    /\ LET file == rollFiles[rollCache(latestVersion)]
           previous == getPreviousRoll(file)
           read == [hist EXCEPT !.prior = file]
       IN  IF previous = 0 THEN
               /\ \E trunc \in truncs : roll' = D100(trunc)
               /\ IF Len(rollsDir) > 1
                  THEN edI' = 2 /\ pc' = "mkdirRolls"
                  ELSE edI' = 0 /\ pc' = "writeRoll"
               /\ GateWaits
               /\ hist' = read
           ELSE
               /\ roll' = previous
               /\ GateDecision(read, previous, FALSE, hist.written)
               /\ UNCHANGED edI
    /\ UNCHANGED << info, run, disk, latestVersion, chance, unhandled,
                    spawnCalls, spawnArgs, child, stored >>

ReadRollDone == ReadRoll(SampleTruncs)

ReadRollDoneAnyDraw == ReadRoll(RandomTruncs)

\* what mkdir(directory) does: "ok", "EEXIST", or another error
MkdirOutcomes(directory) ==
    IF directory \in dirs THEN {"EEXIST"}
    ELSE IF Parent(directory) \notin dirs THEN {"ENOENT"}
    ELSE {"ok", "EACCES"}

\* mkdirMaybe throws every error but EEXIST
mkdirMaybeThrows(outcome) == outcome \notin {"ok", "EEXIST"}

\* one mkdirMaybe of ensureDir(path.dirname(rollCache)) completes
MkdirRollsDone ==
    /\ pc = "mkdirRolls"
    /\ \E outcome \in MkdirOutcomes(Prefix(rollsDir, edI)) :
         /\ dirs' = IF outcome = "ok"
                    THEN dirs \cup {Prefix(rollsDir, edI)} ELSE dirs
         /\ IF mkdirMaybeThrows(outcome) THEN
                GateFail /\ UNCHANGED edI
            ELSE
                /\ IF edI < Len(rollsDir)
                   THEN edI' = edI + 1 /\ pc' = "mkdirRolls"
                   ELSE edI' = 0 /\ pc' = "writeRoll"
                /\ GateWaits
    /\ UNCHANGED << info, run, rollFiles, updFile, latestVersion, chance, roll,
                    unhandled, spawnCalls, spawnArgs, child, hist, stored >>

\* a writeFile that is not awaited: checkChance goes on while the file is
\* still as it was
WriteOutcomesNotAwaited(file, text) == { [ok |-> TRUE, file |-> file] }

\* what writeFile(rollCache, text) leaves behind: the text, or on an error
\* the file as it was or truncated
WriteOutcomes(file, text) ==
    IF rollsDir \notin dirs THEN { [ok |-> FALSE, file |-> file] }
    ELSE { [ok |-> TRUE, file |-> FileWith(text)],
           [ok |-> FALSE, file |-> file],
           [ok |-> FALSE, file |-> FileWith(<<>>)] }

\* writeFile(rollCache, `${roll}`) completes; checkChance decides
WriteRollDone ==
    /\ pc = "writeRoll"
    /\ \E w \in WriteOutcomes(rollFiles[rollCache(latestVersion)], ToText(roll)) :
         /\ rollFiles' = [rollFiles EXCEPT ![rollCache(latestVersion)] = w.file]
         /\ IF w.ok THEN
                /\ GateDecision(hist, roll, TRUE, Append(hist.written, w.file.text))
                /\ stored' = IF stored.roll = 0
                             THEN [roll |-> roll, chance |-> chance, run |-> run,
                                   version |-> latestVersion.text]
                             ELSE stored
            ELSE
                GateFail /\ UNCHANGED <<hist, stored>>
    /\ UNCHANGED << info, run, dirs, updFile, latestVersion, chance, roll,
                    edI, unhandled, spawnCalls, spawnArgs, child >>

(***************************************************************************)
(* The hand-off: the argument list and cp.spawn (bootstrap.js:263-287)     *)
(***************************************************************************)
Flag(f) == [kind |-> "flag", v |-> f]
Quoted(s) == [kind |-> "quoted", v |-> s]
Raw(s) == [kind |-> "raw", v |-> s]

\* the array literal of bootstrap.js:263-270
baseArgs(latest) ==
    << Flag("--base-url"), Quoted("info.baseUrl"),
       Flag("--version"), Quoted(latest.text),
       Flag("--exec"), Quoted("info.exec"),
       Flag("--cwd"), Quoted("info.cwd"),
       Flag("--app-dir"), Quoted("info.appDir"),
       Flag("--force-temp") >>

\* the methods a JavaScript array has that add elements
ArrayMethods == {"push", "unshift", "splice", "concat"}

\* for (pid in list): the enumerable keys of an array are its indices
IndexKeys == <<"0", "1", "2", "3", "4">>
ForInKeys(list) == [i \in 1..Len(list) |-> IndexKeys[i]]

RECURSIVE PidPairs(_)
PidPairs(ids) ==
    IF Len(ids) = 0 THEN <<>>
    ELSE <<Flag("-p"), Raw(Head(ids))>> \o PidPairs(Tail(ids))

\* bootstrap.js:263-275: the list built, or the TypeError of calling a
\* method the array does not have
updaterArgs(latest, waitPids) ==
    LET keys == ForInKeys(waitPids)
    IN  IF Len(keys) = 0
        THEN [threw |-> FALSE, args |-> baseArgs(latest)]
        ELSE IF "push_back" \notin ArrayMethods
        THEN [threw |-> TRUE, args |-> baseArgs(latest)]
        ELSE [threw |-> FALSE, args |-> baseArgs(latest) \o PidPairs(keys)]

\* cp.spawn: the process starts; the call throws; or it returns a child
\* that emits 'error' on the next tick
SpawnOutcomes == {"ok", "throws", "asyncError"}

\* entry after the await of fetchUpdater, to its return or to the
\* rejection handler.  info.waitPids is read here and nowhere else, so the
\* list of this launch is drawn here.
Launch ==
    \E waitPids \in WaitPidSets :
        LET built == updaterArgs(latestVersion, waitPids)
        IN  IF built.threw THEN
                /\ CatchHandler
                /\ hist' = [hist EXCEPT !.launchReached = TRUE,
                                        !.waitPids = waitPids]
                /\ UNCHANGED <<spawnCalls, spawnArgs, child>>
            ELSE
                \E outcome \in SpawnOutcomes :
                    /\ spawnCalls' = spawnCalls + 1
                    /\ spawnArgs' = built.args
                    /\ hist' = [hist EXCEPT !.launchReached = TRUE,
                                            !.waitPids = waitPids,
                                            !.spawnFault = (outcome # "ok")]
                    /\ child' = CASE outcome = "ok" -> "running"
                                   [] outcome = "asyncError" -> "failing"
                                   [] OTHER -> child
                    /\ IF outcome = "throws" \/ CloseThrows(statusWindow) THEN
                           CatchHandler
                       ELSE
                           /\ statusWindow' = AfterClose(statusWindow)
                           /\ done' = TRUE
                           /\ result' = TRUE
                           /\ pc' = "done"

\* the 'error' event of the child process, which has no listener
ChildErrorEvent ==
    /\ child = "failing"
    /\ child' = "failed"
    /\ unhandled' = unhandled \cup {"child error"}
    /\ UNCHANGED << info, run, disk, pc, latestVersion, chance, roll, edI,
                    statusWindow, download, done, result, spawnCalls,
                    spawnArgs, hist, stored >>

(***************************************************************************)
(* fetchUpdater: the output stream, the request and the promise            *)
(* (bootstrap.js:132-172), and the un-awaited ensureDir(info.tempDir)      *)
(* of bootstrap.js:250                                                     *)
(***************************************************************************)
\* a handleResponse without the status test
ResponseNeverRejected(status) == FALSE

\* handleResponse rejects every status but 200 (bootstrap.js:144)
ResponseRejected(status) == status # 200

\* a download promise that resolves on the first event of the stream or
\* of the response instead of on 'close'
SettlesEarly ==
    IF dlPromise = "pending" THEN
        /\ dlPromise' = "resolved"
        /\ Launch
    ELSE
        UNCHANGED <<dlPromise, pc, done, result, statusWindow, spawnCalls,
                    spawnArgs, child, hist>>

\* what the settlement of the download promise leaves unchanged
NoSettle ==
    UNCHANGED <<dlPromise, pc, done, result, statusWindow, spawnCalls,
                spawnArgs, child, hist>>

\* reject(...) of the download promise: the first settlement wins, and a
\* rejection resumes entry into the rejection handler of module.exports
Reject ==
    IF dlPromise = "pending" THEN
        /\ dlPromise' = "rejected"
        /\ CatchHandler
        /\ UNCHANGED <<spawnCalls, spawnArgs, child, hist>>
    ELSE
        NoSettle

\* resolve(updaterPath): the first settlement wins, and it resumes entry
Resolve ==
    IF dlPromise = "pending" THEN
        /\ dlPromise' = "resolved"
        /\ Launch
    ELSE
        NoSettle

\* one mkdirMaybe of the un-awaited ensureDir(info.tempDir) completes; its
\* rejection has no handler
BgMkdirDone ==
    /\ bg.state = "running"
    /\ \E outcome \in MkdirOutcomes(Prefix(tempDir, bg.i)) :
         /\ dirs' = IF outcome = "ok"
                    THEN dirs \cup {Prefix(tempDir, bg.i)} ELSE dirs
         /\ IF mkdirMaybeThrows(outcome) THEN
                /\ bg' = [state |-> "failed", i |-> bg.i]
                /\ unhandled' = unhandled \cup {"ensureDir rejection"}
            ELSE
                /\ bg' = IF bg.i < Len(tempDir)
                         THEN [state |-> "running", i |-> bg.i + 1]
                         ELSE [state |-> "done", i |-> 0]
                /\ UNCHANGED unhandled
    /\ UNCHANGED << info, run, rollFiles, updFile, pc, latestVersion, chance,
                    roll, edI, statusWindow, outStream, req, dlPromise,
                    progressLog, done, result, spawnCalls, spawnArgs, child,
                    hist, stored >>

\* what opening {tempDir}/latest-updater.exe for writing does
OpenOutcomes == IF tempDir \in dirs THEN {"ok", "EACCES"} ELSE {"ENOENT"}

\* the open of the output stream completes: the file is created or
\* truncated and takes the chunks buffered so far, or 'error' is emitted
OpenDone ==
    /\ outStream.state = "opening"
    /\ \E outcome \in OpenOutcomes :
         IF outcome = "ok" THEN
             /\ outStream' = [outStream EXCEPT !.state = "open", !.buffered = 0]
             /\ updFile' = [exists |-> TRUE, bytes |-> outStream.buffered,
                            status |-> req.status]
             /\ NoSettle
         ELSE
             /\ outStream' = [outStream EXCEPT !.state = "errored",
                                               !.error = outcome]
             /\ UNCHANGED updFile
             /\ Reject
    /\ UNCHANGED << info, run, dirs, rollFiles, latestVersion, chance, roll,
                    edI, bg, req, progressLog, unhandled, stored >>

\* the statuses of the binary endpoint, and the content-length it declares
\* in chunks (0: no content-length header)
BinaryStatuses == {200, 500}
ContentLengths == 0..MaxChunks

\* the 'response' event: handleResponse
BinaryResponse ==
    /\ req.state = "sent"
    /\ \E status \in BinaryStatuses, total \in ContentLengths :
         /\ req' = [req EXCEPT !.state = "responding", !.status = status,
                               !.total = total]
         /\ IF ResponseRejected(status) THEN Reject ELSE NoSettle
    /\ UNCHANGED << info, run, disk, latestVersion, chance, roll, edI, bg,
                    outStream, progressLog, unhandled, stored >>

\* a value that goes back as more bytes arrive
ProgressRemaining(accum, total) ==
    [num |-> (total - accum) * 100, den |-> total]

\* (accum / contentLength) * 100 of bootstrap.js:155, as a fraction
ProgressValue(accum, total) == [num |-> accum * 100, den |-> total]

\* the progress callback of entry (bootstrap.js:255-258) on a window
\* handle: nothing without a handle; a send to the window otherwise, which
\* may throw when the window was closed and does throw when it was destroyed
ProgressSends(window) == window # "null"

\* the window is closed by its user while it shows the progress
WindowDestroyed ==
    /\ statusWindow = "open"
    /\ statusWindow' = "destroyed"
    /\ UNCHANGED << info, run, disk, pc, latestVersion, chance, roll, edI,
                    download, done, result, unhandled, spawnCalls, spawnArgs,
                    child, hist, stored >>

\* a chunk of the body arrives: it is piped to the output stream, and the
\* 'data' listener of a 200 response reports progress
ChunkArrives ==
    /\ req.state = "responding"
    /\ req.chunks < MaxChunks
    /\ LET listens == ~ResponseRejected(req.status)
           counted == listens /\ req.total # 0
           accum == IF counted THEN req.accum + 1 ELSE req.accum
       IN  /\ req' = [req EXCEPT
                        !.chunks = req.chunks + 1,
                        !.accum = accum,
                        !.progress =
                            IF counted
                            THEN Append(req.progress,
                                        ProgressValue(accum, req.total))
                            ELSE req.progress]
           /\ IF counted /\ ProgressSends(statusWindow)
              THEN /\ progressLog' =
                        Append(progressLog,
                               [accum |-> accum, total |-> req.total,
                                window |-> statusWindow])
                   /\ \E thrown \in BOOLEAN :
                        /\ thrown => statusWindow \in {"closed", "destroyed"}
                        /\ CloseThrows(statusWindow) => thrown
                        /\ unhandled' =
                             IF thrown
                             THEN unhandled \cup {"progress on closed window"}
                             ELSE unhandled
              ELSE UNCHANGED <<progressLog, unhandled>>
    /\ \E writeFails \in BOOLEAN :
         CASE outStream.state = "opening" ->
                /\ ~writeFails
                /\ outStream' = [outStream EXCEPT !.buffered = outStream.buffered + 1]
                /\ UNCHANGED updFile
                /\ NoSettle
           [] outStream.state = "open" /\ ~writeFails ->
                /\ updFile' = [updFile EXCEPT !.bytes = updFile.bytes + 1,
                                              !.status = req.status]
                /\ UNCHANGED outStream
                /\ NoSettle
           [] outStream.state = "open" /\ writeFails ->
                /\ outStream' = [outStream EXCEPT !.state = "errored",
                                                  !.error = "write"]
                /\ UNCHANGED updFile
                /\ Reject
           [] OTHER ->
                /\ ~writeFails
                /\ UNCHANGED <<outStream, updFile>>
                /\ NoSettle
    /\ UNCHANGED << info, run, dirs, rollFiles, latestVersion, chance, roll,
                    edI, bg, stored >>

\* the body ends: the pipe ends the output stream
ResponseEnd ==
    /\ req.state = "responding"
    /\ req' = [req EXCEPT !.state = "ended"]
    /\ outStream' = [outStream EXCEPT !.ended = TRUE]
    /\ UNCHANGED << info, run, disk, pc, latestVersion, chance, roll, edI,
                    statusWindow, bg, dlPromise, progressLog, done, result,
                    unhandled, spawnCalls, spawnArgs, child, hist, stored >>

\* the request fails in transport: it emits 'error', which has no listener,
\* and the output stream is never ended
TransportError ==
    /\ req.state \in {"sent", "responding"}
    /\ req' = [req EXCEPT !.state = "failed"]
    /\ unhandled' = unhandled \cup {"request error"}
    /\ UNCHANGED << info, run, disk, pc, latestVersion, chance, roll, edI,
                    statusWindow, bg, outStream, dlPromise, progressLog, done,
                    result, spawnCalls, spawnArgs, child, hist, stored >>

\* the output stream emits 'close': after it was ended and flushed, or
\* after its error
StreamClose ==
    /\ \/ outStream.state = "open" /\ outStream.ended
       \/ outStream.state = "errored"
    /\ outStream' = [outStream EXCEPT !.state = "closed"]
    /\ Resolve
    /\ UNCHANGED << info, run, disk, latestVersion, chance, roll, edI, bg,
                    req, progressLog, unhandled, stored >>

(***************************************************************************)
(* The next launch of the application: a new process on the same disk,     *)
(* started once the gate of the previous launch has decided                *)
(***************************************************************************)
NewRun ==
    /\ pc \in {"done", "download"}
    /\ run < MaxRuns
    /\ run' = run + 1
    /\ pc' = "getVersion"
    /\ latestVersion' = NoVersion
    /\ chance' = 0
    /\ roll' = 0
    /\ edI' = 0
    /\ statusWindow' = "null"
    /\ bg' = NoBg
    /\ outStream' = NoStream
    /\ req' = NoReq
    /\ dlPromise' = "none"
    /\ progressLog' = <<>>
    /\ done' = FALSE
    /\ result' = FALSE
    /\ unhandled' = {}
    /\ spawnCalls' = 0
    /\ spawnArgs' = <<>>
    /\ child' = "none"
    /\ hist' = NoHist
    /\ UNCHANGED <<info, disk, stored>>

(***************************************************************************)
(* Spec: one launch, followed from the version request to its last event.  *)
(* SpecGate: successive launches on one disk, each followed to the         *)
(* decision of its gate, with every draw of the roll.                      *)
(* SpecSink: the launch of Spec with a status window that can fail.        *)
(***************************************************************************)
Next ==
    \/ VersionResponse
    \/ ChanceResponse
    \/ ReadRollDone
    \/ MkdirRollsDone
    \/ WriteRollDone
    \/ BgMkdirDone
    \/ OpenDone
    \/ BinaryResponse
    \/ ChunkArrives
    \/ ResponseEnd
    \/ TransportError
    \/ StreamClose
    \/ ChildErrorEvent

Spec == Init /\ [][Next]_vars

NextGate ==
    \/ VersionResponse
    \/ ChanceResponse
    \/ ReadRollDoneAnyDraw
    \/ MkdirRollsDone
    \/ WriteRollDone
    \/ NewRun

SpecGate == InitGate /\ [][NextGate]_vars

\* Spec with a user who may close the status window at any moment
NextSink ==
    \/ VersionResponse
    \/ ChanceResponse
    \/ ReadRollDone
    \/ MkdirRollsDone
    \/ WriteRollDone
    \/ BgMkdirDone
    \/ OpenDone
    \/ BinaryResponse
    \/ ChunkArrives
    \/ ResponseEnd
    \/ TransportError
    \/ StreamClose
    \/ ChildErrorEvent
    \/ WindowDestroyed

SpecSink == Init /\ [][NextSink]_vars

(***************************************************************************)
(* The claims                                                              *)
(***************************************************************************)

\* C1: a run that has completed with result true has launched the updater
\* process: a failed spawn, like every skip, gate rejection and download
\* failure, yields false.
C1_TrueOnlyIfLaunched == (done /\ result) => child = "running"

\* C2: no error escapes a run and every run delivers a boolean: nothing is
\* left unhandled, and a run in which nothing more can happen has settled.
C2_AlwaysSettlesNoEscape ==
    /\ unhandled = {}
    /\ (~ENABLED Next) => done

C5_RollInRange ==
    (hist.gate # "none" /\ hist.chanceStatus = 200) =>
        /\ roll \in 1..100
        /\ chance = 100 => hist.gate = "true"
        /\ chance = 0 => hist.gate = "false"

\* C6: the gate returns true when the chance endpoint answers non-200, and
\* on a 200 answer with chance c exactly when roll <= c; entry proceeds to
\* the download on true and returns false on false.
C6_GateDecision ==
    hist.gate # "none" =>
        /\ hist.gate = "true" <=>
             (hist.chanceStatus # 200 \/ roll <= chance)
        /\ hist.gate = "true" => hist.binaryRequested
        /\ hist.gate = "false" => (done /\ ~result /\ ~hist.binaryRequested)

\* C6 witness: the tie roll = chance is eligible
C6_Witness ==
    /\ hist.gate = "true"
    /\ hist.chanceStatus = 200
    /\ roll = chance

\* a roll cache file that holds no roll: missing, empty, "0", or without
\* any digit
NoPriorRoll(file) ==
    \/ ~file.exists
    \/ file.text = <<>>
    \/ file.text = <<"0">>
    \/ \A i \in 1..Len(file.text) : DigitVal(file.text[i]) > 9

IsRollText(text) == \E n \in 1..100 : text = ToText(n)

\* C7: every text the gate writes to the roll cache is an integer in
\* 1..100, and a gate that decides after reading a file that is missing,
\* empty, "0" or non-numeric has drawn a fresh roll and written it.
C7_RollValidity ==
    /\ \A i \in 1..Len(hist.written) : IsRollText(hist.written[i])
    /\ (hist.gate # "none" /\ hist.chanceStatus = 200 /\ NoPriorRoll(hist.prior)) =>
          /\ hist.fresh
          /\ roll \in 1..100
          /\ hist.written = <<ToText(roll)>>
          /\ rollFiles[rollCache(latestVersion)] = FileWith(ToText(roll))

\* C7 witness: the file held non-numeric text, and the gate decided on a
\* fresh roll of 100 that it wrote
C7_Witness ==
    /\ hist.gate # "none"
    /\ hist.prior = FileWith(<<"a", "b", "c">>)
    /\ hist.fresh
    /\ roll = 100
    /\ hist.written = <<ToText(100)>>

\* C8: when entry reaches the hand-off, cp.spawn is called once with the
\* five quoted options, --force-temp, and one (-p, identifier) pair per
\* element of waitPids, in order.
C8_SpawnArguments ==
    hist.launchReached =>
        /\ spawnCalls = 1
        /\ spawnArgs = baseArgs(latestVersion) \o PidPairs(hist.waitPids)

\* C9: when the download promise has resolved on a 200 answer and the
\* spawn itself does not fail, the updater has been spawned exactly once
\* and the run has returned true, whatever waitPids holds.
C9_DownloadedThenSpawned ==
    (dlPromise = "resolved" /\ req.status = 200 /\ ~hist.spawnFault) =>
        (done /\ result /\ spawnCalls = 1)

\* C10: after a non-200 answer of the binary endpoint the download promise
\* is and stays rejected, the run has returned false and cp.spawn is never
\* called, also after the output stream has emitted 'close'.
C10_Non200NeverSpawns ==
    (req.state # "none" /\ req.status \notin {0, 200}) =>
        /\ dlPromise = "rejected"
        /\ done /\ ~result
        /\ spawnCalls = 0
        /\ child = "none"

\* C10 witness: the body of the 500 answer was piped, the stream ended and
\* emitted 'close' after the rejection
C10_Witness ==
    /\ req.status = 500
    /\ req.state = "ended"
    /\ outStream.state = "closed"
    /\ outStream.ended
    /\ dlPromise = "rejected"
    /\ done /\ ~result

\* C11: once a run has ended on a non-200 answer of the binary endpoint and
\* no event of it is left, the download target {tempDir}/latest-updater.exe
\* does not exist (no launch starts with that file, so an existing one was
\* created by this run).
C11_NoFileAfterNon200 ==
    (done /\ req.status \notin {0, 200} /\ ~ENABLED Next) => ~updFile.exists

\* C12: after a transport error of the request or a write error of the
\* opened output stream, the updater is never spawned, and once no event of
\* the run is left the run has returned false.
C12_StreamErrorIsFatal ==
    (req.state = "failed" \/ outStream.error = "write") =>
        /\ spawnCalls = 0
        /\ ~ENABLED Next => (done /\ ~result)

\* C13: when the run delivers its result no status window is open, so a
\* window that was opened has been closed on every exit path; and as long as
\* the gate has not returned true no window exists at all.
C13_IndicatorClosedAtReturn ==
    /\ done => statusWindow # "open"
    /\ hist.gate # "true" => statusWindow = "null"

\* C13 witness: a window was opened, building the arguments or the spawn
\* threw after the download, and the run returned false with it closed
C13_Witness ==
    /\ done /\ ~result
    /\ hist.launchReached
    /\ dlPromise = "resolved"
    /\ statusWindow = "closed"

\* C14: a failing status window never changes the outcome: the promise
\* returned to the caller never rejects because of it, and once cp.spawn has
\* returned a child the run has returned true, as it does with a window
\* that works.
C14_SinkFailureHarmless ==
    /\ pc # "rejected"
    /\ child # "none" => (done /\ result)

\* C15: a status window, an output stream, a download target file and a
\* request to the binary endpoint exist only in a run whose gate has returned
\* true; a run whose gate returned false has returned false and has none of
\* them.
C15_StagesAfterGate ==
    /\ ( \/ statusWindow # "null"
         \/ outStream.state # "none"
         \/ updFile.exists
         \/ req.state # "none"
         \/ dlPromise # "none" ) => hist.gate = "true"
    /\ hist.gate = "false" =>
         /\ done /\ ~result
         /\ req.state = "none"
         /\ outStream.state = "none"
         /\ ~updFile.exists

\* C15 witness: chance 30 with the cached roll 45: rejected, nothing
\* downloaded
C15_Witness ==
    /\ chance = 30
    /\ roll = 45
    /\ ~hist.fresh
    /\ hist.gate = "false"
    /\ done /\ ~result
    /\ req.state = "none"

\* C16: the open of the download target never fails because info.tempDir
\* does not exist yet: whatever the order of the asynchronous operations,
\* the directory is there when the output stream opens its file.
C16_TempDirBeforeOpen == outStream.error # "ENOENT"

\* C17: whenever cp.spawn has been called, the answer of the binary endpoint
\* was 200, its body has ended, and the output stream has been ended, has
\* written every chunk received to the file and has emitted 'close' without
\* an error.
C17_SpawnAfterClose ==
    spawnCalls > 0 =>
        /\ req.status = 200
        /\ req.state = "ended"
        /\ outStream.state = "closed"
        /\ outStream.ended
        /\ outStream.error = "none"
        /\ outStream.buffered = 0
        /\ updFile.exists
        /\ updFile.bytes = req.chunks

\* C17 witness: a body of MaxChunks chunks, part of it buffered before the
\* file was open, is in the file when the updater is spawned
C17_Witness ==
    /\ spawnCalls = 1
    /\ child = "running"
    /\ req.chunks = MaxChunks
    /\ updFile.bytes = MaxChunks
    /\ outStream.state = "closed"

\* C18: when the gate has decided on a roll it drew itself, the file
\* {cacheDir}/rolls/{version} exists in existing directories and holds that
\* roll; and a run that drew a roll and ended without a decision of the gate
\* (a mkdir or the write failed) has returned false with nothing requested.
C18_FreshRollDurable ==
    /\ (hist.gate # "none" /\ hist.fresh) =>
         /\ cacheDir \in dirs
         /\ rollsDir \in dirs
         /\ rollFiles[rollCache(latestVersion)] = FileWith(ToText(roll))
    /\ (roll # 0 /\ hist.gate = "none" /\ pc \notin {"mkdirRolls", "writeRoll"}) =>
         /\ done /\ ~result
         /\ ~hist.binaryRequested

\* C18 witness: nothing was cached, the gate drew a roll, wrote it and
\* passed
C18_Witness ==
    /\ hist.fresh
    /\ hist.gate = "true"
    /\ ~hist.prior.exists
    /\ rollsDir \in dirs
    /\ rollFiles[rollCache(latestVersion)] = FileWith(ToText(roll))

\* C19: on a 200 answer with a content length, the progress callback has
\* been called once per chunk received, the i-th call with (bytes so far /
\* content length) * 100, the values never go down and stay within 0..100
\* while the bytes do not exceed the content length; on any other answer
\* the callback is never called.  (A chunk is one unit of length.)
C19_ProgressPerChunk ==
    /\ (req.status = 200 /\ req.total # 0) =>
         /\ Len(req.progress) = req.chunks
         /\ \A i \in 1..Len(req.progress) :
              /\ req.progress[i].num * req.total = i * 100 * req.progress[i].den
              /\ i <= req.total =>
                   /\ req.progress[i].num >= 0
                   /\ req.progress[i].num <= 100 * req.progress[i].den
         /\ \A i, j \in 1..Len(req.progress) :
              i < j => req.progress[i].num * req.progress[j].den
                          <= req.progress[j].num * req.progress[i].den
    /\ (req.status # 200 \/ req.total = 0) => req.progress = <<>>

\* C19 witness: MaxChunks chunks of a body of that length, each reported
C19_Witness ==
    /\ req.status = 200
    /\ req.total = MaxChunks
    /\ req.chunks = MaxChunks
    /\ Len(req.progress) = MaxChunks
    /\ req.progress[MaxChunks] = [num |-> MaxChunks * 100, den |-> MaxChunks]

\* C20: every progress report sent to the status window was sent while the
\* window was open: none to a window that has been closed.
C20_ProgressOnlyWhileOpen ==
    \A i \in 1..Len(progressLog) : progressLog[i].window = "open"

====
